---- MODULE Spec2Model ----
(***************************************************************************)
(* Model of src/main.py: a quiz bot that, per run, samples questions from  *)
(* a MongoDB collection, assigns quiz counters and a quiz day, posts an    *)
(* intro message and one poll per question to a Telegram channel, fills a  *)
(* .docx template between two placeholders, converts it to PDF with        *)
(* LibreOffice and posts the PDF.                                          *)
(***************************************************************************)
EXTENDS Integers, Sequences, FiniteSets, TLC

\* ------------------------------------------------------------------ bounds
MaxRuns == 2
MaxQuestions == 2
MaxTemplateLen == 3
MaxDate == 1

\* ------------------------------------------------------- program constants
NumQuestions == 3

START_CONTENT == "<<START_CONTENT>>"
END_CONTENT == "<<END_CONTENT>>"

\* Processes that may execute main(); Spec runs them one after the other on
\* process 1, SpecConc lets two of them overlap.
Procs == {1, 2}
SerialProcs == {1}

CollectionNames == {"c1", "c2"}

\* The 'Answer' field stored with the k-th question of a collection.
AnswerKeys == <<"a", "B", "e">>
AnswerOf(k) == AnswerKeys[((k - 1) % Len(AnswerKeys)) + 1]

\* A paragraph's text is a sequence of string tokens followed by the numbers
\* formatted into it; 'tok in paragraph.text' is token membership.
Para(text, nums) == [text |-> text, nums |-> nums]
Blank == Para(<<>>, <<>>)
Contains(tok, para) == \E i \in 1..Len(para.text) : para.text[i] = tok

TemplateTexts ==
    { <<"x">>, <<START_CONTENT>>, <<END_CONTENT>>, <<START_CONTENT, END_CONTENT>> }
TemplateParas == { Para(t, <<>>) : t \in TemplateTexts }
Templates == UNION { [1..n -> TemplateParas] : n \in 0..MaxTemplateLen }

\* The template with one start marker, stale content and one end marker.
PlainTemplate ==
    << Para(<<START_CONTENT>>, <<>>), Para(<<"x">>, <<>>), Para(<<END_CONTENT>>, <<>>) >>

\* MasterQuestions: collection name -> number of question documents in it.
Stores == UNION { [S -> 0..MaxQuestions] : S \in SUBSET CollectionNames }

VARIABLES
    master,             \* MasterQuestions database (read only)
    counters,           \* QuizCounters.Counters: sequence of [collection_name, count]
    overall,            \* QuizCounters.OverallCounter: sequence of [counter_name, count]
    days,               \* QuizDays.Days: sequence of [date, day] documents
    today,              \* the latest date datetime.now() has returned
    fs,                 \* files present in tempfile.gettempdir()
    template_source,    \* what TEMPLATE_URL serves: see TemplateVersions
    runs,               \* number of runs of main() started so far
    run,                \* per process: position and locals of main()
    issued              \* history: counters handed out, in order

vars ==
    << master, counters, overall, days, today, fs, template_source, runs, run,
       issued >>

store == << master, counters, overall, days >>

\* ------------------------------------------------------------- pure helpers

\* src/main.py:49-51
Lower(s) ==
    CASE s = "A" -> "a" [] s = "B" -> "b" [] s = "C" -> "c" [] s = "D" -> "d"
      [] OTHER -> s

\* <<index>> or <<>> for None.
get_correct_option_index(answer_key) ==
    LET k == Lower(answer_key) IN
    CASE k = "a" -> <<0>> [] k = "b" -> <<1>> [] k = "c" -> <<2>> [] k = "d" -> <<3>>
      [] OTHER -> <<>>

\* $sample of size n over a collection of m documents: min(n, m) distinct
\* documents in any order.
Min(a, b) == IF a < b THEN a ELSE b
Injective(s) == \A i, j \in 1..Len(s) : i # j => s[i] # s[j]
Sample(m, n) == { s \in [1..Min(n, m) -> 1..m] : Injective(s) }

Range(s) == { s[i] : i \in 1..Len(s) }

InitRun ==
    [ pc |-> "idle", id |-> 0, selected |-> "", questions |-> <<>>,
      counter_record |-> <<>>, quiz_number |-> 0, overall_quiz_number |-> 0,
      ret |-> "", today_datetime |-> 0, new_day |-> 0, day |-> 0,
      intro_message |-> Blank, poll_i |-> 0,
      template_io |-> <<>>, content_start |-> 0, content_end |-> 0,
      doc |-> <<>>, saved |-> FALSE, conv |-> "none",
      send_results |-> <<>>,
      sent |-> [intro |-> 0, poll |-> 0, document |-> 0], output |-> {},
      outcome |-> "none" ]

InitCommon ==
    /\ counters = << >>
    /\ overall = << >>
    /\ days = << >>
    /\ fs = {}
    /\ runs = 0
    /\ run = [p \in Procs |-> InitRun]
    /\ issued = << >>

\* A document without placeholders.
BareTemplate == << Para(<<"x">>, <<>>) >>

\* The documents TEMPLATE_URL may serve.
TemplateVersions(source) ==
    CASE source = "deployed" -> { PlainTemplate }
      [] source = "deployed or bare" -> { PlainTemplate, BareTemplate }
      [] source = "any" -> Templates

Init ==
    /\ master \in Stores
    /\ template_source = "deployed or bare"
    /\ today = 1
    /\ InitCommon

\* ------------------------------------------------------------ MongoDB calls
\* A collection is the sequence of its documents in insertion order.

\* find_one(filter): <<first matching document>> or <<>> for None.
FirstMatch(coll, key, value) ==
    LET hits == { i \in 1..Len(coll) : coll[i][key] = value } IN
    IF hits = {} THEN << >>
    ELSE << coll[CHOOSE i \in hits : \A j \in hits : i <= j] >>

\* update_one(filter, {'$set': {'count': n}}): the first matching document.
SetFirstCount(coll, key, value, n) ==
    LET hits == { i \in 1..Len(coll) : coll[i][key] = value } IN
    IF hits = {} THEN coll
    ELSE LET k == CHOOSE i \in hits : \A j \in hits : i <= j IN
         [coll EXCEPT ![k].count = n]

\* find_one(sort=[('date', -1)]): a document of greatest date, if any.
LastByDate(coll) ==
    { coll[i] : i \in { k \in 1..Len(coll) : \A j \in 1..Len(coll) : coll[j].date <= coll[k].date } }

\* ------------------------------------------------------------------ helpers
Set(p, r) == run' = [run EXCEPT ![p] = r]
At(p, where) == run[p].pc = where

Item(coll, k) == << coll, k >>

\* The questions a run has selected.
Selected(r) == { Item(r.selected, k) : k \in Range(r.questions) }

\* The exception that ends the run, as main() does not catch it.
Raise(r, exc) == [r EXCEPT !.pc = "done", !.outcome = exc]

\* -------------------------------------------------------------------- main
\* src/main.py:257-266
Begin(p) ==
    /\ run[p].pc \in {"idle", "done"}
    /\ runs < MaxRuns
    /\ runs' = runs + 1
    /\ IF DOMAIN master = {}
       THEN Set(p, [InitRun EXCEPT !.pc = "done", !.id = runs + 1,
                                   !.outcome = "returned"])
       ELSE \E c \in DOMAIN master : \E qs \in Sample(master[c], NumQuestions) :
            Set(p, [InitRun EXCEPT !.pc = "quiz_number", !.id = runs + 1,
                                   !.selected = c, !.questions = qs])
    /\ UNCHANGED << store, today, fs, template_source, issued >>

\* A run starts only when no other run is in progress.
SerialBegin(p) ==
    /\ \A q \in Procs \ {p} : run[q].pc \in {"idle", "done"}
    /\ Begin(p)

\* get_quiz_number writing the count back without adding one.
QuizNumberCount_NoIncrement(counter_record) ==
    IF counter_record # << >> THEN counter_record[1].count ELSE 1

\* src/main.py:70-81
QuizNumberCount(counter_record) ==
    IF counter_record # << >> THEN counter_record[1].count + 1 ELSE 1

\* src/main.py:73
get_quiz_number_find(p) ==
    /\ At(p, "quiz_number")
    /\ LET c == run[p].selected IN
       Set(p, [run[p] EXCEPT !.pc = "quiz_number_write",
               !.counter_record =
                   FirstMatch(counters, "collection_name", c)])
    /\ UNCHANGED << store, today, fs, template_source, runs, issued >>

\* src/main.py:75-81
get_quiz_number_write(p) ==
    /\ At(p, "quiz_number_write")
    /\ LET c == run[p].selected
           n == QuizNumberCount(run[p].counter_record) IN
       /\ counters' =
              IF run[p].counter_record # << >>
              THEN SetFirstCount(counters, "collection_name", c, n)
              ELSE Append(counters, [collection_name |-> c, count |-> n])
       /\ Set(p, [run[p] EXCEPT !.pc = "overall_number", !.quiz_number = n,
                                !.counter_record = << >>])
    /\ UNCHANGED << master, overall, days, today, fs, template_source, runs,
                    issued >>

\* src/main.py:83-94
OverallCount(counter_record) ==
    IF counter_record # << >> THEN counter_record[1].count + 1 ELSE 1

\* src/main.py:86
get_overall_quiz_number_find(p) ==
    /\ At(p, "overall_number")
    /\ Set(p, [run[p] EXCEPT !.pc = "overall_number_write",
               !.counter_record =
                   FirstMatch(overall, "counter_name", "overall_quiz")])
    /\ UNCHANGED << store, today, fs, template_source, runs, issued >>

\* src/main.py:88-94, and the call of get_quiz_day that follows at line 272
get_overall_quiz_number_write(p) ==
    /\ At(p, "overall_number_write")
    /\ LET n == OverallCount(run[p].counter_record) IN
       /\ overall' =
              IF run[p].counter_record # << >>
              THEN SetFirstCount(overall, "counter_name", "overall_quiz", n)
              ELSE Append(overall, [counter_name |-> "overall_quiz", count |-> n])
       /\ Set(p, [run[p] EXCEPT !.pc = "quiz_day", !.ret = "main",
                                !.overall_quiz_number = n,
                                !.counter_record = << >>])
       /\ issued' = Append(issued,
              [run |-> run[p].id, collection |-> run[p].selected,
               quiz_number |-> run[p].quiz_number, overall |-> n])
    /\ UNCHANGED << master, counters, days, today, fs, template_source, runs >>

\* ------------------------------------------------------------- get_quiz_day
\* The intro message of main(), src/main.py:271-279.
IntroMessage(r, day) ==
    Para(<<"Day", r.selected, "Quiz">>,
         <<day, r.quiz_number, NumQuestions, r.overall_quiz_number>>)

\* Where get_quiz_day returns to: line 272 of main() builds intro_message and
\* goes on to send_intro_message, whose first statement (line 97) calls
\* get_quiz_day again; line 97 goes on to bot.send_message.
QuizDayReturn(r, day) ==
    IF r.ret = "main"
    THEN [r EXCEPT !.pc = "quiz_day", !.ret = "intro", !.day = day,
                   !.intro_message = IntroMessage(r, day)]
    ELSE [r EXCEPT !.pc = "send_intro", !.ret = "", !.day = day]

\* src/main.py:56-62. The clock is read here only: the date is the one last
\* read or a later one.
get_quiz_day_find(p) ==
    /\ At(p, "quiz_day")
    /\ \E now \in today..MaxDate :
       LET day_record == FirstMatch(days, "date", now) IN
       /\ today' = now
       /\ IF day_record # << >>
          THEN Set(p, QuizDayReturn(run[p], day_record[1].day))
          ELSE Set(p, [run[p] EXCEPT !.pc = "quiz_day_last", !.today_datetime = now])
    /\ UNCHANGED << store, fs, template_source, runs, issued >>

\* src/main.py:64-65
get_quiz_day_last(p) ==
    /\ At(p, "quiz_day_last")
    /\ \/ /\ days = << >>
          /\ Set(p, [run[p] EXCEPT !.pc = "quiz_day_insert", !.new_day = 1])
       \/ \E last_day_record \in LastByDate(days) :
          Set(p, [run[p] EXCEPT !.pc = "quiz_day_insert",
                                !.new_day = last_day_record.day + 1])
    /\ UNCHANGED << store, today, fs, template_source, runs, issued >>

\* src/main.py:67-68
get_quiz_day_insert(p) ==
    /\ At(p, "quiz_day_insert")
    /\ days' = Append(days, [date |-> run[p].today_datetime, day |-> run[p].new_day])
    /\ Set(p, QuizDayReturn(run[p], run[p].new_day))
    /\ UNCHANGED << master, counters, overall, today, fs, template_source, runs,
                    issued >>

\* ----------------------------------------------------------------- Telegram
\* Where main() goes after the i-th pass of the loop at line 284.
AfterQuestion(r, i) ==
    IF i > Len(r.questions)
    THEN [r EXCEPT !.pc = "download", !.poll_i = i]
    ELSE [r EXCEPT !.pc = "polls", !.poll_i = i]

\* src/main.py:109-117 (after get_quiz_day at line 97): a TelegramError is
\* logged and swallowed.
send_intro_message(p) ==
    /\ At(p, "send_intro")
    /\ \E delivered \in BOOLEAN :
       Set(p, AfterQuestion(
                 [run[p] EXCEPT !.sent.intro = @ + (IF delivered THEN 1 ELSE 0)], 1))
    /\ UNCHANGED << store, today, fs, template_source, runs, issued >>

\* src/main.py:284-293 with send_quiz_to_channel, lines 119-138: one pass of
\* the loop over the questions.
send_quiz_to_channel(p) ==
    /\ At(p, "polls")
    /\ LET i == run[p].poll_i
           k == run[p].questions[i]
           correct_option_index == get_correct_option_index(AnswerOf(k)) IN
       IF correct_option_index # << >>
       THEN \E delivered \in BOOLEAN :
            Set(p, AfterQuestion(
                   IF delivered
                   THEN [run[p] EXCEPT !.sent.poll = @ + 1,
                                       !.output = @ \cup { Item(run[p].selected, k) }]
                   ELSE run[p],
                   i + 1))
       ELSE Set(p, AfterQuestion(run[p], i + 1))
    /\ UNCHANGED << store, today, fs, template_source, runs, issued >>

\* ----------------------------------------------------------------- template
\* src/main.py:140-148 called at line 295
download_template(p) ==
    /\ At(p, "download")
    /\ \/ \E t \in TemplateVersions(template_source) :
          Set(p, [run[p] EXCEPT !.pc = "update_document", !.template_io = t])
       \/ Set(p, Raise(run[p], "RequestException"))
    /\ UNCHANGED << store, today, fs, template_source, runs, issued >>

\* src/main.py:157-165: the scan from paragraph i on, with content_start as
\* found so far (0 for None); yields <<content_start, content_end>>.
RECURSIVE ScanFrom(_, _, _)
ScanFrom(paras, i, content_start) ==
    IF i > Len(paras) THEN << content_start, 0 >>
    ELSE IF Contains(START_CONTENT, paras[i]) THEN ScanFrom(paras, i + 1, i)
    ELSE IF Contains(END_CONTENT, paras[i]) THEN << content_start, i >>
    ELSE ScanFrom(paras, i + 1, content_start)

FindPlaceholders(paras) == ScanFrom(paras, 1, 0)

RemoveAt(s, i) == SubSeq(s, 1, i - 1) \o SubSeq(s, i + 1, Len(s))

\* src/main.py:169-170: remove paragraphs i, i-1, ..., content_start+1.
RECURSIVE ClearBetween(_, _, _)
ClearBetween(paras, i, content_start) ==
    IF i <= content_start THEN paras
    ELSE ClearBetween(RemoveAt(paras, i), i - 1, content_start)

\* src/main.py:181-202: what one question adds to the document. add_paragraph
\* appends to the end of the body; insert_paragraph_before puts an empty
\* paragraph in front of the question's paragraph.
QuestionParagraphs(k) ==
    << Blank,
       Para(<<"Q:">>, <<k>>),
       Para(<<"A)">>, <<k>>), Para(<<"B)">>, <<k>>),
       Para(<<"C)">>, <<k>>), Para(<<"D)">>, <<k>>),
       Para(<<"Answer:", AnswerOf(k)>>, <<k>>),
       Blank >>

RECURSIVE Rendered(_)
Rendered(questions) ==
    IF questions = << >> THEN << >>
    ELSE QuestionParagraphs(Head(questions)) \o Rendered(Tail(questions))

\* src/main.py:167-204: the paragraphs of the document as saved.
FilledDocument(paras, intro_message, questions) ==
    LET found == FindPlaceholders(paras)
        content_start == found[1]
        content_end == found[2] IN
    IF content_start # 0 /\ content_end # 0
    THEN LET cleared == ClearBetween(paras, content_end - 1, content_start) IN
         [cleared EXCEPT ![content_start] = intro_message] \o Rendered(questions)
    ELSE paras

TempCopy(r) == [kind |-> "tmp.docx", name |-> "", quiz |-> r.id, overall |-> 0]
UpdatedDocPath(r) ==
    [kind |-> "docx", name |-> r.selected, quiz |-> r.quiz_number, overall |-> 0]
PdfTempPath(r) ==
    [kind |-> "pdf", name |-> r.selected, quiz |-> r.quiz_number, overall |-> 0]
PdfPath(r) ==
    [kind |-> "pdf", name |-> r.selected, quiz |-> r.quiz_number,
     overall |-> r.overall_quiz_number]

\* src/main.py:150-209 called at line 296
update_document_with_content(p) ==
    /\ At(p, "update_document")
    /\ LET r == run[p]
           found == FindPlaceholders(r.template_io) IN
       /\ Set(p, [r EXCEPT !.pc = "convert",
                           !.content_start = found[1], !.content_end = found[2],
                           !.doc = FilledDocument(r.template_io, r.intro_message,
                                                  r.questions),
                           !.saved = TRUE])
       /\ fs' = fs \cup { TempCopy(r), UpdatedDocPath(r) }
    /\ UNCHANGED << store, today, template_source, runs, issued >>

\* convert_docx_to_pdf logging the failure without raising it again.
convert_docx_to_pdf_Swallow(p) ==
    /\ At(p, "convert")
    /\ LET r == run[p] IN
       \/ /\ Set(p, [r EXCEPT !.pc = "send_pdf", !.conv = "nonzero"])
          /\ UNCHANGED fs
       \/ \E written \in BOOLEAN :
          LET after == IF written THEN fs \cup { PdfTempPath(r) } ELSE fs IN
          IF PdfTempPath(r) \in after
          THEN /\ fs' = (after \ { PdfTempPath(r) }) \cup { PdfPath(r) }
               /\ Set(p, [r EXCEPT !.pc = "send_pdf", !.conv = "converted"])
          ELSE /\ fs' = after
               /\ Set(p, [r EXCEPT !.pc = "send_pdf", !.conv = "missing"])
    /\ UNCHANGED << store, today, template_source, runs, issued >>

\* src/main.py:211-233 called at line 299. LibreOffice exits non-zero, or
\* exits zero having written the PDF beside the .docx or not.
convert_docx_to_pdf(p) ==
    /\ At(p, "convert")
    /\ LET r == run[p] IN
       \/ /\ Set(p, Raise([r EXCEPT !.conv = "nonzero"], "CalledProcessError"))
          /\ UNCHANGED fs
       \/ \E written \in BOOLEAN :
          LET after == IF written THEN fs \cup { PdfTempPath(r) } ELSE fs IN
          IF PdfTempPath(r) \in after
          THEN /\ fs' = (after \ { PdfTempPath(r) }) \cup { PdfPath(r) }
               /\ Set(p, [r EXCEPT !.pc = "send_pdf", !.conv = "converted"])
          ELSE /\ fs' = after
               /\ Set(p, Raise([r EXCEPT !.conv = "missing"], "FileNotFoundError"))
    /\ UNCHANGED << store, today, template_source, runs, issued >>

\* What bot.send_document may answer: success, a transient TelegramError
\* (TimedOut, NetworkError) or a permanent one (BadRequest, Forbidden).
SendResults == {"ok", "transient", "permanent"}

\* src/main.py:235-255 called at line 300, after which main() returns.
send_pdf_to_channel(p) ==
    /\ At(p, "send_pdf")
    /\ \E result \in SendResults :
       Set(p, [run[p] EXCEPT !.pc = "done", !.outcome = "returned",
                  !.send_results = Append(@, result),
                  !.sent.document = @ + (IF result = "ok" THEN 1 ELSE 0),
                  !.output = IF result = "ok" THEN @ \cup Selected(run[p]) ELSE @])
    /\ UNCHANGED << store, today, fs, template_source, runs, issued >>

\* ----------------------------------------------------------- specifications
Step(p) ==
    \/ get_quiz_number_find(p)
    \/ get_quiz_number_write(p)
    \/ get_overall_quiz_number_find(p)
    \/ get_overall_quiz_number_write(p)
    \/ get_quiz_day_find(p)
    \/ get_quiz_day_last(p)
    \/ get_quiz_day_insert(p)
    \/ send_intro_message(p)
    \/ send_quiz_to_channel(p)
    \/ download_template(p)
    \/ update_document_with_content(p)
    \/ convert_docx_to_pdf(p)
    \/ send_pdf_to_channel(p)

\* Runs of main() one after the other.
Next ==
    \E p \in SerialProcs : SerialBegin(p) \/ Step(p)

Spec == Init /\ [][Next]_vars

\* One run of main(), whatever document TEMPLATE_URL serves.
InitTemplate ==
    /\ master \in Stores
    /\ template_source = "any"
    /\ today = 1
    /\ InitCommon

FirstBegin(p) ==
    /\ runs = 0
    /\ Begin(p)

NextTemplate ==
    \E p \in SerialProcs : FirstBegin(p) \/ Step(p)

SpecTemplate == InitTemplate /\ [][NextTemplate]_vars

\* Runs of main() that may overlap, on one day, against a store of one
\* collection with the template as deployed.
InitConc ==
    /\ master = [c \in {"c1"} |-> 1]
    /\ template_source = "deployed"
    /\ today = MaxDate
    /\ InitCommon

NextConc ==
    \E p \in Procs : Begin(p) \/ Step(p)

SpecConc == InitConc /\ [][NextConc]_vars

\* ------------------------------------------------------------------- claims
HasStart(t) == \E i \in 1..Len(t) : Contains(START_CONTENT, t[i])
HasEnd(t) == \E i \in 1..Len(t) : Contains(END_CONTENT, t[i])

\* The first paragraph holding the start marker, and the first one after it
\* holding the end marker (0 when there is none).
StartIndex(t) ==
    IF HasStart(t)
    THEN CHOOSE i \in 1..Len(t) :
            /\ Contains(START_CONTENT, t[i])
            /\ \A j \in 1..(i - 1) : ~Contains(START_CONTENT, t[j])
    ELSE 0
EndIndex(t) ==
    LET later == { i \in 1..Len(t) : i > StartIndex(t) /\ Contains(END_CONTENT, t[i]) } IN
    IF StartIndex(t) # 0 /\ later # {}
    THEN CHOOSE i \in later : \A j \in later : i <= j
    ELSE 0
HasMarkerPair(t) == StartIndex(t) # 0 /\ EndIndex(t) # 0

\* The document the template engine is specified to produce.
SpanReplaced(t, questions) ==
    SubSeq(t, 1, StartIndex(t) - 1) \o << Blank >> \o Rendered(questions)
        \o << Blank >> \o SubSeq(t, EndIndex(t) + 1, Len(t))

\* C1: once update_document_with_content has saved the document of a template
\* with the start marker at s and the end marker at e > s, the paragraphs
\* between the two markers are the content rendered from the questions, in
\* order, both marker paragraphs are empty, and the paragraphs before s and
\* after e are those of the template.
C1_SpanReplaced ==
    \A p \in Procs :
        run[p].saved /\ HasMarkerPair(run[p].template_io)
            => run[p].doc = SpanReplaced(run[p].template_io, run[p].questions)

\* C2: a template lacking the start marker, the end marker or both makes the
\* insertion fail: update_document_with_content does not return with a saved
\* document, and the run ends with a placeholder-not-found error.
C2_MissingPlaceholderFails ==
    \A p \in Procs :
        run[p].pc \in {"convert", "send_pdf", "done"}
        /\ run[p].quiz_number # 0
        /\ run[p].outcome # "RequestException"
        /\ (~HasStart(run[p].template_io) \/ ~HasEnd(run[p].template_io))
            => /\ ~run[p].saved
               /\ run[p].pc = "done"
               /\ run[p].outcome = "PlaceholderNotFound"

\* C3: a question that was part of the output of one run (sent as a poll or
\* in the delivered document) is not selected by a later run; stated of a
\* run and the run that follows it.
C3_ProcessedAtMostOnce ==
    [][\A p \in Procs :
          run'[p].id # run[p].id => Selected(run'[p]) \cap run[p].output = {}]_vars

\* The temporary files a run creates.
RunFiles(r) == { TempCopy(r), UpdatedDocPath(r), PdfTempPath(r), PdfPath(r) }

\* C4: when a run has terminated, on whatever path, none of the temporary
\* files it created (template copy, intermediate .docx, final .pdf) is left.
C4_TempFilesRemoved ==
    \A p \in Procs :
        run[p].pc = "done" => RunFiles(run[p]) \cap fs = {}

\* C5: delivery is retried on transient failure up to 3 attempts: a run makes
\* a further attempt only after a transient failure, a run whose last attempt
\* failed transiently has made exactly 3 attempts and ends reporting the
\* delivery failure, and a run whose last attempt succeeded has delivered.
C5_DeliveryRetried ==
    \A p \in Procs :
        run[p].pc = "done" /\ run[p].send_results # << >>
            => LET r == run[p].send_results
                   n == Len(r) IN
               /\ n <= 3
               /\ \A i \in 1..(n - 1) : r[i] = "transient"
               /\ r[n] = "transient"
                    => n = 3 /\ run[p].outcome = "DeliveryTransientFailure"
               /\ r[n] = "ok" => run[p].sent.document = 1

\* C6: a document is handed to send_document only if the marker span of the
\* template was found and the document holds the run's questions.
C6_OnlyPopulatedDelivered ==
    \A p \in Procs :
        run[p].send_results # << >>
            => /\ run[p].content_start # 0
               /\ run[p].content_end # 0
               /\ \A k \in Range(run[p].questions) :
                    \E i \in 1..Len(run[p].doc) : run[p].doc[i] = Para(<<"Q:">>, <<k>>)

\* C7: when the converter exits non-zero, or exits zero without the expected
\* output file, convert_docx_to_pdf raises, the run ends there and
\* send_document is not called in that run.
C7_ConverterFailureFatal ==
    \A p \in Procs :
        run[p].conv \in {"nonzero", "missing"}
            => /\ run[p].pc = "done"
               /\ run[p].outcome \in {"CalledProcessError", "FileNotFoundError"}
               /\ run[p].send_results = << >>
               /\ run[p].sent.document = 0

\* A run whose converter exited zero without writing the PDF.
C7_Witness ==
    \E p \in Procs :
        /\ run[p].conv = "missing"
        /\ run[p].pc = "done"
        /\ UpdatedDocPath(run[p]) \in fs

\* C8: the Days collection holds at most one document per calendar date,
\* whatever the interleaving of the get_quiz_day calls of concurrent runs.
C8_OneEntryPerDate ==
    \A i, j \in 1..Len(days) : days[i].date = days[j].date => i = j

\* C9: a run whose batch is empty (no collections, or a collection yielding no
\* question) returns normally having sent no intro message, no poll and no
\* document, and having rendered no document.
C9_EmptyBatchNoOutput ==
    \A p \in Procs :
        run[p].pc # "idle" /\ run[p].questions = << >>
            => /\ run[p].sent = [intro |-> 0, poll |-> 0, document |-> 0]
               /\ ~run[p].saved
               /\ run[p].pc = "done" => run[p].outcome = "returned"

\* C10: in runs that do not overlap, the n-th run to get its counters gets
\* overall quiz number n, and the k-th of them that selected collection c gets
\* quiz number k for c.
C10_CountersCountRuns ==
    \A i \in 1..Len(issued) :
        /\ issued[i].overall = i
        /\ issued[i].quiz_number =
               Cardinality({ j \in 1..i : issued[j].collection = issued[i].collection })

\* The second run got its counters, for the collection of the first run, after
\* the first run had failed in the converter.
C10_Witness ==
    /\ Len(issued) = 2
    /\ issued[1].collection = issued[2].collection
    /\ issued[2].quiz_number = 2
    /\ \E f \in fs : f.kind = "docx" /\ f.quiz = 1
    /\ \A f \in fs : f.kind # "pdf"

====
